---- MODULE Spec2Model ----
(***************************************************************************)
(* Model of src/office/Extract-PowerPointText.py: the outline extraction   *)
(* of a presentation (extract_text_from_shape, extract_slide_text,         *)
(* format_slide_output, extract_powerpoint_text).                          *)
(*                                                                         *)
(* Text is modelled as TLA+ strings, handled character by character with   *)
(* Len, SubSeq and \o.  The three non-ASCII bullet characters of the       *)
(* source are written with ASCII stand-ins, one character each:            *)
(*     "@" stands for U+2022 (the round bullet),                           *)
(*     "#" stands for U+25E6 (the white bullet),                           *)
(*     "+" stands for U+25AA (the small black square).                     *)
(* "-" and "*" are themselves.  No input text of the model uses "@", "#"   *)
(* or "+" in any other role.                                               *)
(***************************************************************************)
EXTENDS Integers, Sequences, FiniteSets, TLC

VARIABLES
    prs,            \* the presentation that is read (never written)
    run,            \* the number of the current call of extract_powerpoint_text
    slide_num,      \* extract_powerpoint_text: the loop variable slide_num
    pc,             \* the position in extract_powerpoint_text/extract_slide_text
    shape_idx,      \* extract_slide_text: the position of its loop over the shapes
    slide_content,  \* extract_slide_text: the record slide_content
    text_content,   \* extract_text_from_shape: text_content when it was last left
    text_shape,     \* the shape of that call of extract_text_from_shape
    entered,        \* the resolution paths that call has entered
    content_src,    \* for every line of slide_content.content, where it is from
    images_src,     \* for every entry of slide_content.images, the shape it is from
    warnings,       \* the shapes a warning was printed for, in this slide
    all_output,     \* extract_powerpoint_text: the list all_output
    history         \* for every run, the records returned and the result

vars == <<prs, run, slide_num, pc, shape_idx, slide_content, text_content,
          text_shape, entered, content_src, images_src, warnings, all_output, history>>

(***************************************************************************)
(* Bounds of the model.                                                    *)
(***************************************************************************)
MaxShapes == 2
MaxParas == 2
MaxLevel == 3
MaxRuns == 2

(***************************************************************************)
(* Python values that are not strings.                                     *)
(***************************************************************************)
None == "<None>"
NoAttr == "<no attribute>"

HasAttr(v) == v # NoAttr
Truthy(v) == v # NoAttr /\ v # None /\ v # ""

(***************************************************************************)
(* str methods.                                                            *)
(***************************************************************************)
Ch(s, i) == SubSeq(s, i, i)

IsSpace(c) == c \in {" ", "\n", "\t"}

RECURSIVE LStrip(_)
LStrip(s) ==
    IF Len(s) > 0 /\ IsSpace(Ch(s, 1)) THEN LStrip(SubSeq(s, 2, Len(s))) ELSE s

RECURSIVE RStrip(_)
RStrip(s) ==
    IF Len(s) > 0 /\ IsSpace(Ch(s, Len(s)))
    THEN RStrip(SubSeq(s, 1, Len(s) - 1)) ELSE s

Strip(s) == LStrip(RStrip(s))

StartsWith(s, p) == Len(s) >= Len(p) /\ SubSeq(s, 1, Len(p)) = p

EndsWith(s, p) ==
    Len(s) >= Len(p) /\ SubSeq(s, Len(s) - Len(p) + 1, Len(s)) = p

Contains(s, p) ==
    \E i \in 1..(Len(s) - Len(p) + 1) : SubSeq(s, i, i + Len(p) - 1) = p

UpperChars == <<"A", "B", "C", "D", "E", "F", "G", "H", "I", "J", "K", "L", "M",
                "N", "O", "P", "Q", "R", "S", "T", "U", "V", "W", "X", "Y", "Z">>
LowerChars == <<"a", "b", "c", "d", "e", "f", "g", "h", "i", "j", "k", "l", "m",
                "n", "o", "p", "q", "r", "s", "t", "u", "v", "w", "x", "y", "z">>

IsUpper(c) == \E k \in 1..Len(UpperChars) : UpperChars[k] = c

LowerCh(c) ==
    IF IsUpper(c)
    THEN LowerChars[CHOOSE k \in 1..Len(UpperChars) : UpperChars[k] = c]
    ELSE c

RECURSIVE Lower(_)
Lower(s) ==
    IF Len(s) = 0 THEN "" ELSE LowerCh(Ch(s, 1)) \o Lower(SubSeq(s, 2, Len(s)))

\* len(s.split()): the number of maximal runs of non-whitespace characters
SplitLen(s) ==
    Cardinality({i \in 1..Len(s) :
        /\ ~IsSpace(Ch(s, i))
        /\ (i = 1 \/ IsSpace(Ch(s, i - 1)))})

\* s.split("\n")
RECURSIVE SplitLines(_)
SplitLines(s) ==
    IF \E i \in 1..Len(s) : Ch(s, i) = "\n"
    THEN LET k == CHOOSE i \in 1..Len(s) :
                     Ch(s, i) = "\n" /\ \A j \in 1..(i - 1) : Ch(s, j) # "\n"
         IN  <<SubSeq(s, 1, k - 1)>> \o SplitLines(SubSeq(s, k + 1, Len(s)))
    ELSE <<s>>

\* "  " * n
RECURSIVE Repeat(_, _)
Repeat(s, n) == IF n <= 0 THEN "" ELSE s \o Repeat(s, n - 1)

RECURSIVE JoinLines(_)
JoinLines(ls) ==
    IF Len(ls) = 0 THEN ""
    ELSE IF Len(ls) = 1 THEN ls[1]
    ELSE ls[1] \o "\n" \o JoinLines(Tail(ls))

(***************************************************************************)
(* extract_text_from_shape, structured mode (the shape has a text_frame).  *)
(*                                                                         *)
(* A paragraph is a record                                                 *)
(*   text    paragraph.text                                                *)
(*   level   paragraph.level                                               *)
(*   hasPPr  paragraph._p.pPr is not None                                  *)
(*   buChar  None when pPr has no a:buChar child, NoAttr when the child    *)
(*           has no 'char' attribute, else the value of that attribute     *)
(*   buAutoNum, buBlip, buFont, buNone   pPr has that child                *)
(*   runBu   some run's rPr has a buChar attribute                         *)
(*   fault   where reading the paragraph raises: "none", "pPr" (reading    *)
(*           _p.pPr), "buChar" (reading the a:buChar element, after the    *)
(*           bullet children were found), "runs" (reading the runs),       *)
(*           "text" (reading paragraph.text)                               *)
(***************************************************************************)
BulletChars == <<"@", "#", "+", "-", "*">>

default_bullets == <<"@ ", "# ", "+ ">>

\* DefaultBullet clamped to the last entry of the table instead of "- "
DefaultBullet_Clamped(level) ==
    default_bullets[IF level < Len(default_bullets) THEN level + 1
                    ELSE Len(default_bullets)]

\* DefaultBullet with the table read from index 1 instead of index 0
DefaultBullet_OffByOne(level) ==
    IF level >= 1 /\ level <= Len(default_bullets) THEN default_bullets[level]
    ELSE "- "

\* default_bullets[level] if level < len(default_bullets) else "- "
DefaultBullet(level) ==
    IF level < Len(default_bullets) THEN default_bullets[level + 1] ELSE "- "

keywords == {"align", "coordinate", "use", "incremental", "cross", "iterative",
             "teams", "backlogs", "decisions"}

slide2_patterns == {"align decision", "coordinate shared", "agile ceremonies",
                    "incremental", "cross-functional", "iterative",
                    "teams operate", "backlogs are", "shared decisions"}

\* lines 52-74: the try block that reads the explicit bullet attributes;
\* the result is the pair of locals after the block or after the except
ReadBulletAttrs(p) ==
    LET found == p.buChar # None \/ p.buAutoNum \/ p.buBlip \/ p.buFont
        method1 ==
            IF p.fault = "pPr"
            THEN [original_bullet |-> "", has_ppt_bullet |-> FALSE, raised |-> TRUE]
            ELSE IF p.hasPPr /\ found
            THEN IF p.fault = "buChar"
                 THEN [original_bullet |-> "", has_ppt_bullet |-> TRUE,
                       raised |-> TRUE]
                 ELSE [original_bullet |->
                           IF p.buChar # None /\ p.buChar # NoAttr
                           THEN p.buChar \o " " ELSE "",
                       has_ppt_bullet |-> TRUE, raised |-> FALSE]
            ELSE [original_bullet |-> "", has_ppt_bullet |-> FALSE,
                  raised |-> FALSE]
    IN  IF method1.raised \/ method1.has_ppt_bullet
        THEN [original_bullet |-> method1.original_bullet,
              has_ppt_bullet |-> method1.has_ppt_bullet]
        ELSE IF p.fault = "runs"
        THEN [original_bullet |-> "", has_ppt_bullet |-> FALSE]
        ELSE [original_bullet |-> "", has_ppt_bullet |-> p.runBu]

\* TextBullet with "*" missing from the list of bullet characters
TextBullet_NoStar(text) ==
    IF \E k \in 1..4 : StartsWith(text, BulletChars[k])
    THEN BulletChars[CHOOSE k \in 1..4 :
             /\ StartsWith(text, BulletChars[k])
             /\ \A j \in 1..(k - 1) : ~StartsWith(text, BulletChars[j])]
    ELSE None

\* lines 77-84: the first bullet character the text starts with, or None
TextBullet(text) ==
    IF \E k \in 1..Len(BulletChars) : StartsWith(text, BulletChars[k])
    THEN BulletChars[CHOOSE k \in 1..Len(BulletChars) :
             /\ StartsWith(text, BulletChars[k])
             /\ \A j \in 1..(k - 1) : ~StartsWith(text, BulletChars[j])]
    ELSE None

\* lines 104-109: the stripped texts of the non-empty paragraphs before index j
RECURSIVE PrevTexts(_, _)
PrevTexts(paragraphs, j) ==
    IF j <= 1 THEN <<>>
    ELSE LET prev_text == Strip(paragraphs[j - 1].text)
         IN  PrevTexts(paragraphs, j - 1)
                 \o (IF prev_text # "" THEN <<prev_text>> ELSE <<>>)

\* lines 98-121: the level-0 context rule; parasStable says whether
\* all_paragraphs.index(paragraph) finds the paragraph (else ValueError)
ContextBullet(shape, j, text) ==
    IF ~shape.parasStable THEN FALSE
    ELSE LET prev_texts == PrevTexts(shape.paragraphs, j)
             lowered == Lower(text)
         IN  /\ Len(prev_texts) > 0
             /\ SplitLen(prev_texts[Len(prev_texts)]) <= 3
             /\ ~EndsWith(prev_texts[Len(prev_texts)], ":")
             /\ SplitLen(text) > 2
             /\ \E keyword \in keywords : Contains(lowered, keyword)

\* Slide2Bullet without the lower() of the text
Slide2Bullet_CaseSensitive(text) ==
    \E pattern \in slide2_patterns : Contains(text, pattern)

\* lines 124-127
Slide2Bullet(text) ==
    LET lowered == Lower(text)
    IN  \E pattern \in slide2_patterns : Contains(lowered, pattern)

\* Indent with one space per level
Indent_OneSpace(level) == Repeat(" ", level)

\* indent = "  " * level
Indent(level) == Repeat("  ", level)

\* f"{indent}{original_bullet}{text}"

FormatLine(level, original_bullet, text) ==
    Indent(level) \o original_bullet \o text

\* lines 42-130: one paragraph with non-empty text; the result records the
\* formatted line with the locals it was built from
ResolveParagraph(shape, j) ==
    LET paragraph == shape.paragraphs[j]
        level == paragraph.level
        text0 == Strip(paragraph.text)
        attrs == ReadBulletAttrs(paragraph)
        bullet_char == TextBullet(text0)
        ob1 == IF bullet_char # None /\ attrs.original_bullet = ""
               THEN bullet_char \o " " ELSE attrs.original_bullet
        text == IF bullet_char # None
                THEN Strip(SubSeq(text0, Len(bullet_char) + 1, Len(text0)))
                ELSE text0
        ob2 == IF attrs.has_ppt_bullet /\ ob1 = ""
               THEN DefaultBullet(level) ELSE ob1
        ob3 == IF ob2 = "" /\ level > 0 THEN DefaultBullet(level) ELSE ob2
        ob4 == IF ob3 = "" /\ level = 0 /\ ContextBullet(shape, j, text)
               THEN "@ " ELSE ob3
        ob5 == IF ob4 = "" /\ level = 0 /\ Slide2Bullet(text) THEN "@ " ELSE ob4
    IN  [line |-> FormatLine(level, ob5, text), src |-> j, level |-> level,
         glyph |-> ob5, text |-> text]

\* lines 38-130: the loop over shape.text_frame.paragraphs, from index j on
RECURSIVE StructuredLoop(_, _, _)
StructuredLoop(shape, j, acc) ==
    IF j > Len(shape.paragraphs)
    THEN [raised |-> FALSE, text_content |-> acc]
    ELSE IF shape.paragraphs[j].fault = "text"
    THEN [raised |-> TRUE, text_content |-> acc]
    ELSE IF Strip(shape.paragraphs[j].text) # ""
    THEN StructuredLoop(shape, j + 1, Append(acc, ResolveParagraph(shape, j)))
    ELSE StructuredLoop(shape, j + 1, acc)

(***************************************************************************)
(* extract_text_from_shape, flat mode (lines 131-194: the shape has no     *)
(* text_frame but has a text), and the whole function.                     *)
(***************************************************************************)
flat_words == {"align", "coordinate", "use", "teams", "incremental", "cross",
               "iterative", "backlogs", "decisions", "shared"}

\* lines 153-178, the three cases of should_be_bullet; preceding_lines are
\* the lines already in text_content
ShouldBeBullet(preceding_lines, stripped_line) ==
    LET n == Len(preceding_lines)
        substantial == SplitLen(stripped_line) > 1 /\ ~EndsWith(stripped_line, ":")
        lowered == Lower(stripped_line)
    IN  \/ /\ n > 0
           /\ (EndsWith(preceding_lines[n], ":") \/ SplitLen(preceding_lines[n]) <= 3)
           /\ substantial
        \/ /\ n > 0
           /\ \E k \in 1..Len(BulletChars) : StartsWith(preceding_lines[n], BulletChars[k])
           /\ substantial
        \/ /\ substantial
           /\ \/ IsUpper(Ch(stripped_line, 1))
              \/ \E word \in flat_words : Contains(lowered, word)

\* FlatBullet with "- " beyond the three glyphs
FlatBullet_Dash(indent_level) ==
    IF indent_level = 0 THEN "@ " ELSE IF indent_level = 1 THEN "# "
    ELSE IF indent_level = 2 THEN "+ " ELSE "- "

\* lines 184-189
FlatBullet(indent_level) ==
    IF indent_level = 0 THEN "@ " ELSE IF indent_level = 1 THEN "# " ELSE "+ "

\* [l for l in text_content if l.strip()]
RECURSIVE NonBlankLines(_)
NonBlankLines(acc) ==
    IF Len(acc) = 0 THEN <<>>
    ELSE NonBlankLines(SubSeq(acc, 1, Len(acc) - 1))
             \o (IF Strip(acc[Len(acc)].line) # "" THEN <<acc[Len(acc)].line>>
                 ELSE <<>>)

\* lines 135-194: one non-empty line of the text
ResolveFlatLine(acc, raw_line, k) ==
    LET line == RStrip(raw_line)
        stripped_line == LStrip(line)
        indent_level == (Len(line) - Len(stripped_line)) \div 2
        has_existing_bullet ==
            \E b \in 1..Len(BulletChars) : StartsWith(stripped_line, BulletChars[b])
    IN  IF has_existing_bullet
        THEN [line |-> stripped_line, src |-> k, level |-> indent_level,
              glyph |-> "", text |-> stripped_line]
        ELSE IF ShouldBeBullet(NonBlankLines(acc), stripped_line)
        THEN [line |-> FormatLine(indent_level, FlatBullet(indent_level),
                                  stripped_line),
              src |-> k, level |-> indent_level,
              glyph |-> FlatBullet(indent_level), text |-> stripped_line]
        ELSE [line |-> stripped_line, src |-> k, level |-> indent_level,
              glyph |-> "", text |-> stripped_line]

\* lines 133-194: the loop over shape.text.split("\n"), from index k on
RECURSIVE FlatLoop(_, _, _)
FlatLoop(lines, k, acc) ==
    IF k > Len(lines) THEN acc
    ELSE IF Strip(RStrip(lines[k])) = "" THEN FlatLoop(lines, k + 1, acc)
    ELSE FlatLoop(lines, k + 1, Append(acc, ResolveFlatLine(acc, lines[k], k)))

\* lines 33-286.  The result is text_content as the function leaves it,
\* whether the function raised instead of returning it, and the paths it
\* entered: "structured" for a loop over shape.text_frame.paragraphs (line
\* 40 or line 196), "flat" for the loop over the lines of shape.text (line
\* 134).  After the flat loop, line 196 reads shape.text_frame.paragraphs of
\* a shape that has no text_frame, which raises AttributeError.
ExtractTextFromShape(shape) ==
    IF shape.hasTextFrame
    THEN LET loop == StructuredLoop(shape, 1, <<>>)
         IN  [raised |-> loop.raised, text_content |-> loop.text_content,
              paths |-> {"structured"}]
    ELSE IF HasAttr(shape.text) /\ Strip(shape.text) # ""
    THEN [raised |-> TRUE,
          text_content |-> FlatLoop(SplitLines(shape.text), 1, <<>>),
          paths |-> {"flat", "structured"}]
    ELSE [raised |-> FALSE, text_content |-> <<>>, paths |-> {}]

(***************************************************************************)
(* extract_slide_text.                                                     *)
(*                                                                         *)
(* A shape is a record                                                     *)
(*   kind           "picture" when shape_type is MSO_SHAPE_TYPE.PICTURE,   *)
(*                  else "text"                                            *)
(*   isPlaceholder  the shape has a placeholder_format                     *)
(*   idx            placeholder_format.idx                                 *)
(*   fault          where reading the shape raises: "none",                *)
(*                  "placeholder_format", "shape_type"                     *)
(*   hasTextFrame, parasStable, paragraphs, text   the text container      *)
(*   description, alt_text, name   attributes of the shape (NoAttr when    *)
(*                  the shape has no such attribute)                       *)
(*   descr, title   attributes of the cNvPr element (None when not set)    *)
(* A slide is a record [shapes, notes, notesFault]: notes is the text of   *)
(* the notes text frame (None without a notes slide), notesFault says      *)
(* that reading the notes raises.                                          *)
(***************************************************************************)
Digits == <<"1", "2", "3", "4", "5", "6", "7", "8", "9">>

\* str(n) for the small positive numbers the model prints
IntStr(n) == Digits[n]

\* shape.text: of a shape with a text_frame, the paragraph texts joined
ShapeText(shape) ==
    IF shape.hasTextFrame
    THEN JoinLines([j \in 1..Len(shape.paragraphs) |-> shape.paragraphs[j].text])
    ELSE shape.text

ShapeTextRaises(shape) ==
    shape.hasTextFrame
        /\ \E j \in 1..Len(shape.paragraphs) : shape.paragraphs[j].fault = "text"

\* lines 302-304 and 319-321: the test for the title placeholder, FALSE when
\* reading placeholder_format raises
IsTitlePlaceholder(shape) ==
    shape.fault # "placeholder_format" /\ shape.isPlaceholder /\ shape.idx = 0

\* line 369
IsGenericName(name) ==
    StartsWith(name, "Picture ") \/ StartsWith(name, "Graphic ")
        \/ StartsWith(name, "Image ")

\* lines 333-370: alt_text after the four methods
AltText(shape) ==
    LET m1 == IF Truthy(shape.description) THEN shape.description
              ELSE IF Truthy(shape.alt_text) THEN shape.alt_text
              ELSE ""
        m2 == IF m1 = "" /\ Truthy(shape.descr) /\ Strip(shape.descr) # ""
              THEN shape.descr ELSE m1
        m3 == IF m2 = "" /\ Truthy(shape.title) /\ Strip(shape.title) # ""
              THEN shape.title ELSE m2
    IN  IF m3 = "" /\ Truthy(shape.name) /\ ~IsGenericName(Strip(shape.name))
        THEN Strip(shape.name) ELSE m3

\* ImageEntry without the fallback of lines 380-383
ImageEntry_NoFallback(shape, images) == Strip(AltText(shape))

\* lines 377-383: the entry appended to slide_content['images']
ImageEntry(shape, images) ==
    LET alt_text == AltText(shape)
    IN  IF alt_text # "" /\ Strip(alt_text) # ""
        THEN Strip(alt_text)
        ELSE "[No alt-text] "
                 \o (IF HasAttr(shape.name) THEN shape.name
                     ELSE "Image_" \o IntStr(Len(images) + 1))

\* lines 291-296
EmptySlideContent == [title |-> "", content |-> <<>>, notes |-> "", images |-> <<>>]

CurrentSlide == prs[slide_num]
CurrentShape == CurrentSlide.shapes[shape_idx]

\* CallExtractSlideText with the two lists of slide_content shared by all
\* calls instead of created by each
CallExtractSlideText_SharedLists ==
    /\ pc = "loop"
    /\ slide_num <= Len(prs)
    /\ slide_content' = [EmptySlideContent EXCEPT !.content = slide_content.content,
                                                  !.images = slide_content.images]
    /\ content_src' = content_src
    /\ images_src' = images_src
    /\ warnings' = <<>>
    /\ text_content' = <<>>
    /\ text_shape' = 0
    /\ entered' = {}
    /\ shape_idx' = 1
    /\ pc' = "title"
    /\ UNCHANGED <<prs, run, slide_num, all_output, history>>

\* line 455: the call of extract_slide_text on the next slide
CallExtractSlideText ==
    /\ pc = "loop"
    /\ slide_num <= Len(prs)
    /\ slide_content' = EmptySlideContent
    /\ content_src' = <<>>
    /\ images_src' = <<>>
    /\ warnings' = <<>>
    /\ text_content' = <<>>
    /\ text_shape' = 0
    /\ entered' = {}
    /\ shape_idx' = 1
    /\ pc' = "title"
    /\ UNCHANGED <<prs, run, slide_num, all_output, history>>

\* lines 300-307: a title placeholder with text sets the title
TitleFound ==
    /\ pc = "title"
    /\ shape_idx <= Len(CurrentSlide.shapes)
    /\ IsTitlePlaceholder(CurrentShape)
    /\ ~ShapeTextRaises(CurrentShape)
    /\ HasAttr(ShapeText(CurrentShape))
    /\ Strip(ShapeText(CurrentShape)) # ""
    /\ slide_content' = [slide_content EXCEPT !.title = Strip(ShapeText(CurrentShape))]
    /\ shape_idx' = shape_idx + 1
    /\ UNCHANGED <<prs, run, slide_num, pc, text_content, text_shape, entered,
                   content_src, images_src, warnings, all_output, history>>

\* lines 300-310: any other shape, and a shape whose reading raises
TitleNotFound ==
    /\ pc = "title"
    /\ shape_idx <= Len(CurrentSlide.shapes)
    /\ ~(/\ IsTitlePlaceholder(CurrentShape)
         /\ ~ShapeTextRaises(CurrentShape)
         /\ HasAttr(ShapeText(CurrentShape))
         /\ Strip(ShapeText(CurrentShape)) # "")
    /\ shape_idx' = shape_idx + 1
    /\ UNCHANGED <<prs, run, slide_num, pc, slide_content, text_content,
                   text_shape, entered, content_src, images_src, warnings, all_output,
                   history>>

\* line 300: the first loop is over
TitleLoopExit ==
    /\ pc = "title"
    /\ shape_idx > Len(CurrentSlide.shapes)
    /\ pc' = "shapes"
    /\ shape_idx' = 1
    /\ UNCHANGED <<prs, run, slide_num, slide_content, text_content,
                   text_shape, entered, content_src, images_src, warnings, all_output,
                   history>>

\* lines 317-328
SkipTitlePlaceholder ==
    /\ pc = "shapes"
    /\ shape_idx <= Len(CurrentSlide.shapes)
    /\ IsTitlePlaceholder(CurrentShape)
    /\ shape_idx' = shape_idx + 1
    /\ UNCHANGED <<prs, run, slide_num, pc, slide_content, text_content,
                   text_shape, entered, content_src, images_src, warnings, all_output,
                   history>>

\* lines 331-383
ProcessPicture ==
    /\ pc = "shapes"
    /\ shape_idx <= Len(CurrentSlide.shapes)
    /\ ~IsTitlePlaceholder(CurrentShape)
    /\ CurrentShape.fault # "shape_type"
    /\ CurrentShape.kind = "picture"
    /\ slide_content' =
           [slide_content EXCEPT !.images =
               Append(@, ImageEntry(CurrentShape, slide_content.images))]
    /\ images_src' = Append(images_src, shape_idx)
    /\ shape_idx' = shape_idx + 1
    /\ UNCHANGED <<prs, run, slide_num, pc, text_content, text_shape, entered,
                   content_src, warnings, all_output, history>>

\* ProcessTextShape with the lines that are already in the content left out
ProcessTextShape_Dedup ==
    /\ pc = "shapes"
    /\ shape_idx <= Len(CurrentSlide.shapes)
    /\ ~IsTitlePlaceholder(CurrentShape)
    /\ CurrentShape.fault # "shape_type"
    /\ CurrentShape.kind # "picture"
    /\ LET shape_text == ExtractTextFromShape(CurrentShape)
           IsNew(d) == \A n \in 1..Len(slide_content.content) :
                           slide_content.content[n] # d.line
           fresh == SelectSeq(shape_text.text_content, IsNew)
       IN  /\ ~shape_text.raised
           /\ text_content' = shape_text.text_content
           /\ text_shape' = shape_idx
           /\ entered' = shape_text.paths
           /\ slide_content' =
                  [slide_content EXCEPT !.content =
                      @ \o [k \in 1..Len(fresh) |-> fresh[k].line]]
           /\ content_src' =
                  content_src \o [k \in 1..Len(fresh) |->
                                      [shape |-> shape_idx, d |-> fresh[k]]]
    /\ shape_idx' = shape_idx + 1
    /\ UNCHANGED <<prs, run, slide_num, pc, images_src, warnings, all_output,
                   history>>

\* lines 384-387
ProcessTextShape ==
    /\ pc = "shapes"
    /\ shape_idx <= Len(CurrentSlide.shapes)
    /\ ~IsTitlePlaceholder(CurrentShape)
    /\ CurrentShape.fault # "shape_type"
    /\ CurrentShape.kind # "picture"
    /\ LET shape_text == ExtractTextFromShape(CurrentShape)
       IN  /\ ~shape_text.raised
           /\ text_content' = shape_text.text_content
           /\ text_shape' = shape_idx
           /\ entered' = shape_text.paths
           /\ slide_content' =
                  [slide_content EXCEPT !.content =
                      @ \o [k \in 1..Len(shape_text.text_content) |->
                                shape_text.text_content[k].line]]
           /\ content_src' =
                  content_src \o [k \in 1..Len(shape_text.text_content) |->
                                      [shape |-> shape_idx,
                                       d |-> shape_text.text_content[k]]]
    /\ shape_idx' = shape_idx + 1
    /\ UNCHANGED <<prs, run, slide_num, pc, images_src, warnings, all_output,
                   history>>

\* SkipShapeOnError leaving the loop (break) instead of going on (continue)
SkipShapeOnError_Break ==
    /\ pc = "shapes"
    /\ shape_idx <= Len(CurrentSlide.shapes)
    /\ ~IsTitlePlaceholder(CurrentShape)
    /\ \/ /\ CurrentShape.fault = "shape_type"
          /\ UNCHANGED <<text_content, text_shape, entered>>
       \/ /\ CurrentShape.fault # "shape_type"
          /\ CurrentShape.kind # "picture"
          /\ LET shape_text == ExtractTextFromShape(CurrentShape)
             IN  /\ shape_text.raised
                 /\ text_content' = shape_text.text_content
                 /\ text_shape' = shape_idx
                 /\ entered' = shape_text.paths
    /\ warnings' = Append(warnings, shape_idx)
    /\ shape_idx' = Len(CurrentSlide.shapes) + 1
    /\ UNCHANGED <<prs, run, slide_num, pc, slide_content, content_src,
                   images_src, all_output, history>>

\* SkipShapeOnError with the lines built before the error added to the content
SkipShapeOnError_Partial ==
    /\ pc = "shapes"
    /\ shape_idx <= Len(CurrentSlide.shapes)
    /\ ~IsTitlePlaceholder(CurrentShape)
    /\ \/ /\ CurrentShape.fault = "shape_type"
          /\ UNCHANGED <<text_content, text_shape, entered, slide_content,
                         content_src>>
       \/ /\ CurrentShape.fault # "shape_type"
          /\ CurrentShape.kind # "picture"
          /\ LET shape_text == ExtractTextFromShape(CurrentShape)
             IN  /\ shape_text.raised
                 /\ text_content' = shape_text.text_content
                 /\ text_shape' = shape_idx
                 /\ entered' = shape_text.paths
                 /\ slide_content' =
                        [slide_content EXCEPT !.content =
                            @ \o [k \in 1..Len(shape_text.text_content) |->
                                      shape_text.text_content[k].line]]
                 /\ content_src' =
                        content_src \o [k \in 1..Len(shape_text.text_content) |->
                                            [shape |-> shape_idx,
                                             d |-> shape_text.text_content[k]]]
    /\ warnings' = Append(warnings, shape_idx)
    /\ shape_idx' = shape_idx + 1
    /\ UNCHANGED <<prs, run, slide_num, pc, images_src, all_output, history>>

\* lines 388-391: an error raised while the shape is processed
SkipShapeOnError ==
    /\ pc = "shapes"
    /\ shape_idx <= Len(CurrentSlide.shapes)
    /\ ~IsTitlePlaceholder(CurrentShape)
    /\ \/ /\ CurrentShape.fault = "shape_type"
          /\ UNCHANGED <<text_content, text_shape, entered>>
       \/ /\ CurrentShape.fault # "shape_type"
          /\ CurrentShape.kind # "picture"
          /\ LET shape_text == ExtractTextFromShape(CurrentShape)
             IN  /\ shape_text.raised
                 /\ text_content' = shape_text.text_content
                 /\ text_shape' = shape_idx
                 /\ entered' = shape_text.paths
    /\ warnings' = Append(warnings, shape_idx)
    /\ shape_idx' = shape_idx + 1
    /\ UNCHANGED <<prs, run, slide_num, pc, slide_content, content_src,
                   images_src, all_output, history>>

\* line 314: the second loop is over
ShapeLoopExit ==
    /\ pc = "shapes"
    /\ shape_idx > Len(CurrentSlide.shapes)
    /\ pc' = "notes"
    /\ UNCHANGED <<prs, run, slide_num, shape_idx, slide_content,
                   text_content, text_shape, entered, content_src, images_src,
                   warnings, all_output, history>>

\* lines 394-399: the notes are read and the record is returned
ExtractNotes ==
    /\ pc = "notes"
    /\ ~CurrentSlide.notesFault
    /\ slide_content' =
           IF Truthy(CurrentSlide.notes) /\ Strip(CurrentSlide.notes) # ""
           THEN [slide_content EXCEPT !.notes = Strip(CurrentSlide.notes)]
           ELSE slide_content
    /\ pc' = "format"
    /\ UNCHANGED <<prs, run, slide_num, shape_idx, text_content, text_shape, entered,
                   content_src, images_src, warnings, all_output, history>>

\* lines 394-397 raise: nothing in extract_slide_text catches the error, the
\* except of extract_powerpoint_text (lines 475-477) does and returns False
NotesRaise ==
    /\ pc = "notes"
    /\ CurrentSlide.notesFault
    /\ pc' = "failed"
    /\ history' = [history EXCEPT ![run].result = "False"]
    /\ UNCHANGED <<prs, run, slide_num, shape_idx, slide_content,
                   text_content, text_shape, entered, content_src, images_src,
                   warnings, all_output>>

(***************************************************************************)
(* format_slide_output and extract_powerpoint_text.                        *)
(***************************************************************************)
\* lines 425-426
ImageLines(images) ==
    [i \in 1..Len(images) |-> "Image " \o IntStr(i) \o ": " \o images[i]]

\* FormatSlideOutput with the header of every section emitted, also that of
\* an empty one
FormatSlideOutput_AllHeaders(n, slide_data) ==
    JoinLines(
        <<"=== SLIDE " \o IntStr(n) \o " ===">>
        \o <<"Title:", slide_data.title, "">>
        \o <<"Content:">> \o slide_data.content \o <<"">>
        \o <<"Images:">> \o ImageLines(slide_data.images) \o <<"">>
        \o <<"Notes:", slide_data.notes, "">>)

\* lines 402-435
FormatSlideOutput(n, slide_data) ==
    JoinLines(
        <<"=== SLIDE " \o IntStr(n) \o " ===">>
        \o (IF slide_data.title # ""
            THEN <<"Title:", slide_data.title, "">> ELSE <<>>)
        \o (IF Len(slide_data.content) > 0
            THEN <<"Content:">> \o slide_data.content \o <<"">> ELSE <<>>)
        \o (IF Len(slide_data.images) > 0
            THEN <<"Images:">> \o ImageLines(slide_data.images) \o <<"">>
            ELSE <<>>)
        \o (IF slide_data.notes # ""
            THEN <<"Notes:", slide_data.notes, "">> ELSE <<>>))

\* lines 455-457: extract_slide_text has returned; its record is formatted
\* and the loop goes to the next slide
FormatSlide ==
    /\ pc = "format"
    /\ all_output' = Append(all_output, FormatSlideOutput(slide_num, slide_content))
    /\ history' =
           [history EXCEPT
               ![run].records = Append(@, slide_content),
               ![run].outputs =
                   Append(@, FormatSlideOutput(slide_num, slide_content))]
    /\ slide_num' = slide_num + 1
    /\ pc' = "loop"
    /\ UNCHANGED <<prs, run, shape_idx, slide_content, text_content,
                   text_shape, entered, content_src, images_src, warnings>>

\* lines 459-473: all slides are done, the output is written
FinishRun ==
    /\ pc = "loop"
    /\ slide_num > Len(prs)
    /\ history' = [history EXCEPT ![run].result = "True",
                                  ![run].final_output = JoinLines(all_output)]
    /\ pc' = "finished"
    /\ UNCHANGED <<prs, run, slide_num, shape_idx, slide_content,
                   text_content, text_shape, entered, content_src, images_src,
                   warnings, all_output>>

NewRun ==
    [records |-> <<>>, outputs |-> <<>>, result |-> "running",
     final_output |-> None]

\* extract_powerpoint_text is called again on the same presentation
\* (lines 445-450)
Rerun ==
    /\ pc \in {"finished", "failed"}
    /\ run < MaxRuns
    /\ run' = run + 1
    /\ history' = Append(history, NewRun)
    /\ all_output' = <<>>
    /\ slide_num' = 1
    /\ pc' = "loop"
    /\ UNCHANGED <<prs, shape_idx, slide_content, text_content, text_shape, entered,
                   content_src, images_src, warnings>>

(***************************************************************************)
(* The presentations the model reads.                                      *)
(***************************************************************************)
NoAttrs == [hasPPr |-> FALSE, buChar |-> None, buAutoNum |-> FALSE,
            buBlip |-> FALSE, buFont |-> FALSE, buNone |-> FALSE,
            runBu |-> FALSE, fault |-> "none"]

EmptyPPr == [NoAttrs EXCEPT !.hasPPr = TRUE]

BuChar(c) == [EmptyPPr EXCEPT !.buChar = c]

AttrPool ==
    { NoAttrs, EmptyPPr, BuChar("@"), BuChar("#"), BuChar(NoAttr),
      [EmptyPPr EXCEPT !.buAutoNum = TRUE],
      [EmptyPPr EXCEPT !.buBlip = TRUE],
      [EmptyPPr EXCEPT !.buFont = TRUE],
      [EmptyPPr EXCEPT !.buNone = TRUE],
      [EmptyPPr EXCEPT !.buFont = TRUE, !.buNone = TRUE],
      [NoAttrs EXCEPT !.runBu = TRUE],
      [BuChar("@") EXCEPT !.fault = "pPr"],
      [BuChar("@") EXCEPT !.fault = "buChar"],
      [NoAttrs EXCEPT !.runBu = TRUE, !.fault = "runs"] }

Para(text, level, attrs) == [text |-> text, level |-> level] @@ attrs

TextPool ==
    { "Coordinate shared roadmap", "Review the plan now", "Agenda", "Key points:",
      "Align decisions", "- Item one", "@ Item one", "#Item one", "+ Item one",
      "* Item one", "  * Note ", "   " }

CoreTexts == { "Coordinate shared roadmap", "Review the plan now", "- Item one" }

CoreAttrs == { NoAttrs, BuChar("#"), [EmptyPPr EXCEPT !.buAutoNum = TRUE] }

\* every text with the main attributes, the main texts with every attribute
ParaPool ==
    { Para(t, l, a) : t \in TextPool, l \in 0..MaxLevel, a \in CoreAttrs }
        \cup { Para(t, l, a) : t \in CoreTexts, l \in 0..MaxLevel, a \in AttrPool }

\* paragraphs that may precede another one in a shape
ContextPool ==
    { Para("Agenda", 0, NoAttrs), Para("Key points:", 0, NoAttrs),
      Para("Align decisions", 0, BuChar("@")),
      Para("Review the plan now", 0, NoAttrs), Para("   ", 0, NoAttrs) }

\* paragraphs without a glyph of their own, for which lines 96-127 decide
PlainPool ==
    { Para(t, 0, a) :
          t \in { "Coordinate shared roadmap", "Review the plan now", "Agenda",
                  "Key points:", "Align decisions" },
          a \in { NoAttrs, EmptyPPr, [EmptyPPr EXCEPT !.buNone = TRUE] } }

BlankShape ==
    [kind |-> "text", isPlaceholder |-> FALSE, idx |-> 0, fault |-> "none",
     hasTextFrame |-> FALSE, parasStable |-> FALSE, paragraphs |-> <<>>,
     text |-> NoAttr, description |-> NoAttr, alt_text |-> NoAttr,
     descr |-> None, title |-> None, name |-> NoAttr]

TextShape(paragraphs, stable) ==
    [BlankShape EXCEPT !.hasTextFrame = TRUE, !.parasStable = stable,
                       !.paragraphs = paragraphs]

FlatShape(text) == [BlankShape EXCEPT !.text = text]

Placeholder(shape, idx) == [shape EXCEPT !.isPlaceholder = TRUE, !.idx = idx]

Picture(description, alt_text, descr, title, name) ==
    [BlankShape EXCEPT !.kind = "picture", !.description = description,
                       !.alt_text = alt_text, !.descr = descr, !.title = title,
                       !.name = name]

SeqsUpTo(S, n) == UNION { [1..k -> S] : k \in 0..n }

\* two paragraphs of one level: the first with has-bullet formatting and no
\* character, the second with no bullet attribute
LevelPair(level) ==
    TextShape(<<Para("Review the plan now", level,
                     [EmptyPPr EXCEPT !.buAutoNum = TRUE]),
                Para("Review the plan now", level, NoAttrs)>>, FALSE)

\* shapes of one paragraph of every kind, shapes of two paragraphs of one
\* level, and shapes of up to MaxParas paragraphs that end with a plain one
ParaShapes ==
    { TextShape(<<p>>, FALSE) : p \in ParaPool }
        \cup { LevelPair(l) : l \in 0..MaxLevel }
        \cup { TextShape(prefix \o <<p>>, stable) :
                   prefix \in SeqsUpTo(ContextPool, MaxParas - 1) \ { <<>> },
                   p \in PlainPool, stable \in BOOLEAN }

NamePool == { NoAttr, "", "Picture 3", "Picture of the team", "Logo", "Image 12",
              "Graphic 1" }

PicturePool ==
    { Picture(d, a, x, t, n) :
          d \in { NoAttr, "", " ", "Team photo" }, a \in { NoAttr, "Alt chart" },
          x \in { None, " ", "A chart" }, t \in { None, "Logo title" },
          n \in NamePool }

TitleShape == Placeholder(TextShape(<<Para("Quarterly Review", 0, NoAttrs)>>, TRUE), 0)

ScenarioAShape ==
    Placeholder(TextShape(<<Para("Align decisions", 0, BuChar("@")),
                            Para("Coordinate shared roadmap", 0, NoAttrs)>>,
                          TRUE), 1)

ScenarioCShape == FlatShape("  - Item one\nItem two")

\* the shapes of the slides with several shapes
ShapePool ==
    { TitleShape,
      Placeholder(TextShape(<<Para("Overview", 0, NoAttrs)>>, FALSE), 0),
      Placeholder(TextShape(<<Para("", 0, NoAttrs)>>, FALSE), 0),
      ScenarioAShape,
      [ScenarioAShape EXCEPT !.parasStable = FALSE],
      ScenarioCShape,
      [TextShape(<<Para("Agenda", 0, NoAttrs)>>, FALSE) EXCEPT !.fault = "shape_type"],
      [TextShape(<<Para("Agenda", 0, NoAttrs)>>, FALSE)
           EXCEPT !.fault = "placeholder_format"],
      TextShape(<<Para("Agenda", 0, NoAttrs),
                  [Para("Broken", 0, NoAttrs) EXCEPT !.fault = "text"]>>, FALSE),
      Picture(NoAttr, NoAttr, None, None, "Picture 3"),
      Picture(NoAttr, NoAttr, None, None, NoAttr) }

\* further shapes, of slides with one shape
SinglePool ==
    { TextShape(<<Para("Agenda", 0, NoAttrs), Para("Nested", 1, NoAttrs)>>, FALSE),
      FlatShape("  "),
      FlatShape("Agenda:\n  sub item"),
      Picture("Team photo", NoAttr, None, None, "Picture 1"),
      [Picture("Team photo", NoAttr, None, None, "Logo")
           EXCEPT !.fault = "shape_type"] }

Slide(shapes, notes, notesFault) ==
    [shapes |-> shapes, notes |-> notes, notesFault |-> notesFault]

\* one slide with one shape that has paragraphs of any kind
ParaSlides == { Slide(<<s>>, None, FALSE) : s \in ParaShapes }

\* one slide with a picture of any kind, alone or after another picture
PictureSlides ==
    { Slide(<<s>>, None, FALSE) : s \in PicturePool }
        \cup { Slide(<<Picture(NoAttr, NoAttr, None, None, NoAttr), s>>, None, FALSE) :
                   s \in PicturePool }

\* slides of up to MaxShapes shapes, and slides of one shape with notes
ShapeSlides ==
    { Slide(shapes, None, FALSE) : shapes \in SeqsUpTo(ShapePool, MaxShapes) }
        \cup { Slide(shapes, notes, FALSE) :
                   shapes \in SeqsUpTo(ShapePool \cup SinglePool, 1),
                   notes \in { None, "", " Speaker notes " } }
        \cup { Slide(shapes, None, TRUE) : shapes \in SeqsUpTo(ShapePool, 1) }

ScenarioASlide == Slide(<<TitleShape, ScenarioAShape>>, None, FALSE)

\* one slide with a title, a text shape, two pictures and notes
FullSlide ==
    Slide(<<TitleShape, ScenarioAShape,
            Picture("Team photo", NoAttr, None, None, "Picture 1"),
            Picture(NoAttr, NoAttr, None, None, "Picture 3")>>,
          " Speaker notes ", FALSE)

\* one slide with paragraphs and a flat line at the first level beyond
\* default_bullets
DeepSlide ==
    Slide(<<LevelPair(Len(default_bullets)),
            FlatShape("Agenda:\n" \o Indent(Len(default_bullets)) \o "sub item")>>,
          None, FALSE)

\* one slide with the same shape twice, a blank paragraph and then a text
RepeatSlide ==
    Slide(<<TextShape(<<Para("   ", 0, NoAttrs), Para("Agenda", 0, NoAttrs)>>, FALSE),
            TextShape(<<Para("   ", 0, NoAttrs), Para("Agenda", 0, NoAttrs)>>, FALSE)>>,
          None, FALSE)

\* the slides of the presentations of two slides
DeckPool ==
    { ScenarioASlide,
      Slide(<<ScenarioCShape>>, None, FALSE),
      Slide(<<Picture(NoAttr, NoAttr, None, None, "Picture 3")>>, None, TRUE),
      Slide(<<>>, "Speaker notes", FALSE) }

Presentations ==
    { <<s>> : s \in ParaSlides \cup PictureSlides \cup ShapeSlides
                        \cup { FullSlide, DeepSlide, RepeatSlide } }
        \cup { <<s1, s2>> : s1 \in DeckPool, s2 \in DeckPool }

Init ==
    /\ prs \in Presentations
    /\ run = 1
    /\ slide_num = 1
    /\ pc = "loop"
    /\ shape_idx = 1
    /\ slide_content = EmptySlideContent
    /\ text_content = <<>>
    /\ text_shape = 0
    /\ entered = {}
    /\ content_src = <<>>
    /\ images_src = <<>>
    /\ warnings = <<>>
    /\ all_output = <<>>
    /\ history = <<NewRun>>

Next ==
    \/ CallExtractSlideText
    \/ TitleFound
    \/ TitleNotFound
    \/ TitleLoopExit
    \/ SkipTitlePlaceholder
    \/ ProcessPicture
    \/ ProcessTextShape
    \/ SkipShapeOnError
    \/ ShapeLoopExit
    \/ ExtractNotes
    \/ NotesRaise
    \/ FormatSlide
    \/ FinishRun
    \/ Rerun

Spec == Init /\ [][Next]_vars
(***************************************************************************)
(* Properties.                                                             *)
(***************************************************************************)
\* extract_slide_text is at work on slide slide_num
InSlide == pc \in {"title", "shapes", "notes", "format", "failed"}

SrcShape(k) == prs[slide_num].shapes[k]

\* the paragraph line n of slide_content.content comes from
SrcPara(n) == SrcShape(content_src[n].shape).paragraphs[content_src[n].d.src]

\* the literal bullet character the trimmed text of paragraph p begins with
EmbeddedBullet(p) ==
    LET t == Strip(p.text)
    IN  IF t # "" /\ Ch(t, 1) \in {"@", "#", "+", "-", "*"} THEN Ch(t, 1) ELSE None

\* what follows the indentation of line n of the content, two characters
RenderedGlyph(n) ==
    SubSeq(slide_content.content[n], 2 * SrcPara(n).level + 1,
           2 * SrcPara(n).level + 2)

\* paragraph p has an a:buChar with a character, and reading it succeeds
ReadableBuChar(p) ==
    /\ p.hasPPr
    /\ p.buChar # None
    /\ p.buChar # NoAttr
    /\ p.fault \notin {"pPr", "buChar"}

\* C1 as stated: in structured mode a paragraph whose trimmed text begins
\* with a literal bullet character is rendered with that character and one
\* space as its glyph, whatever its bullet attributes and its level.
C1_Original ==
    InSlide =>
        \A n \in 1..Len(content_src) :
            EmbeddedBullet(SrcPara(n)) # None
                => RenderedGlyph(n) = EmbeddedBullet(SrcPara(n)) \o " "

\* C1 as amended: the glyph is the literal character and one space at every
\* level and whatever the has-bullet and no-bullet attributes, unless the
\* paragraph has an a:buChar attribute with a character that is read without
\* error; then the glyph is the attribute's character and one space.
C1_TextBulletUnlessBuChar ==
    InSlide =>
        \A n \in 1..Len(content_src) :
            EmbeddedBullet(SrcPara(n)) # None
                => RenderedGlyph(n) =
                       IF ReadableBuChar(SrcPara(n))
                       THEN SrcPara(n).buChar \o " "
                       ELSE EmbeddedBullet(SrcPara(n)) \o " "

C1_Witness ==
    /\ InSlide
    /\ \E n \in 1..Len(content_src) :
           /\ EmbeddedBullet(SrcPara(n)) = "*"
           /\ SrcPara(n).level > 0
           /\ SrcPara(n).buAutoNum
           /\ RenderedGlyph(n) = "* "

\* paragraph p has no explicit bullet attribute of any kind
NoExplicitAttr(p) ==
    /\ p.buChar = None
    /\ ~p.buAutoNum /\ ~p.buBlip /\ ~p.buFont /\ ~p.buNone
    /\ ~p.runBu
    /\ p.fault = "none"

\* line n of the content is the indentation, glyph g and the trimmed text
RenderedWith(n, g) ==
    slide_content.content[n]
        = Repeat(" ", 2 * SrcPara(n).level) \o g \o Strip(SrcPara(n).text)

\* C2 as stated: a paragraph at level L > 0 without explicit bullet
\* attribute and without embedded bullet character is rendered with a
\* glyph of the level table.
C2_Original ==
    InSlide =>
        \A n \in 1..Len(content_src) :
            (/\ NoExplicitAttr(SrcPara(n))
             /\ EmbeddedBullet(SrcPara(n)) = None
             /\ SrcPara(n).level > 0)
                => \E g \in {"@ ", "# ", "+ "} : RenderedWith(n, g)

\* C2 as amended: such a paragraph is rendered with a non-empty glyph, the
\* entry of the level table at levels 1 and 2 and "- " at level 3 and deeper.
C2_LevelGlyphOrDash ==
    InSlide =>
        \A n \in 1..Len(content_src) :
            (/\ NoExplicitAttr(SrcPara(n))
             /\ EmbeddedBullet(SrcPara(n)) = None
             /\ SrcPara(n).level > 0)
                => RenderedWith(n, IF SrcPara(n).level = 1 THEN "# "
                                   ELSE IF SrcPara(n).level = 2 THEN "+ "
                                   ELSE "- ")

C2_Witness ==
    /\ InSlide
    /\ \E n \in 1..Len(content_src) :
           /\ NoExplicitAttr(SrcPara(n))
           /\ SrcPara(n).level = 3
           /\ slide_content.content[n] = "      - Review the plan now"

\* the level of entry n of text_content: the paragraph's level, or in flat
\* mode the level estimated from the leading whitespace of the line
EntryLevel(n) ==
    IF SrcShape(text_shape).hasTextFrame
    THEN SrcShape(text_shape).paragraphs[text_content[n].src].level
    ELSE LET line == RStrip(SplitLines(SrcShape(text_shape).text)[text_content[n].src])
         IN  (Len(line) - Len(LStrip(line))) \div 2

Indented(n) ==
    text_content[n].line
        = Repeat(" ", 2 * EntryLevel(n)) \o text_content[n].glyph
              \o text_content[n].text

\* C3 as stated: every line extract_text_from_shape emits, in structured
\* and in flat mode, is 2 * level spaces, the glyph and the trimmed text.
C3_Original ==
    (InSlide /\ text_shape > 0) =>
        \A n \in 1..Len(text_content) : Indented(n)

\* C3 as amended: every line emitted in structured mode is 2 * level spaces,
\* the glyph and the trimmed text; in flat mode only a line that is given a
\* bullet is, and every other line (one that already starts with a bullet
\* character, or that gets no bullet) is the source line without its leading
\* and trailing whitespace, with no indentation.
C3_IndentUnlessFlatVerbatim ==
    (InSlide /\ text_shape > 0) =>
        \A n \in 1..Len(text_content) :
            IF SrcShape(text_shape).hasTextFrame \/ text_content[n].glyph # ""
            THEN Indented(n)
            ELSE text_content[n].line =
                     Strip(SplitLines(SrcShape(text_shape).text)[text_content[n].src])

C3_Witness ==
    /\ InSlide
    /\ text_shape > 0
    /\ SrcShape(text_shape).hasTextFrame
    /\ \E n \in 1..Len(text_content) :
           /\ EntryLevel(n) = 2
           /\ text_content[n].glyph = "+ "
           /\ SubSeq(text_content[n].line, 1, 6) = "    + "

\* extract_slide_text is through with the shapes of the slide
ShapesDone == pc \in {"notes", "format"}

\* a warning was printed for shape k: its processing raised
Failed(k) == \E w \in 1..Len(warnings) : warnings[w] = k

\* shape s is flagged as the title placeholder
TitleFlagged(s) == s.isPlaceholder /\ s.idx = 0

\* C4: errors raised by shapes do not leave extract_slide_text (only the
\* notes can make it fail), and once the loop over the shapes is through,
\* the record has the image entry of every picture and the line of every
\* non-empty paragraph of every shape that raised no error and is not the
\* title.
C4_FaultIsolation ==
    /\ pc = "failed" => CurrentSlide.notesFault
    /\ ShapesDone =>
           \A k \in 1..Len(CurrentSlide.shapes) :
               (~Failed(k) /\ ~TitleFlagged(SrcShape(k))) =>
                   IF SrcShape(k).kind = "picture"
                   THEN \E m \in 1..Len(images_src) :
                            /\ m <= Len(slide_content.images)
                            /\ images_src[m] = k
                   ELSE SrcShape(k).hasTextFrame =>
                            \A j \in 1..Len(SrcShape(k).paragraphs) :
                                Strip(SrcShape(k).paragraphs[j].text) # "" =>
                                    \E n \in 1..Len(content_src) :
                                        /\ content_src[n].shape = k
                                        /\ content_src[n].d.src = j
                                        /\ slide_content.content[n]
                                               = content_src[n].d.line

C4_Witness ==
    /\ pc = "format"
    /\ warnings = <<1>>
    /\ Len(CurrentSlide.shapes) = 2
    /\ content_src # <<>>
    /\ \A n \in 1..Len(content_src) : content_src[n].shape = 2
    /\ slide_content.content = <<"@ Align decisions", "@ Coordinate shared roadmap">>

\* v is absent, empty or whitespace
Blank(v) == v \in {NoAttr, None} \/ Strip(v) = ""

AllDigits(t) ==
    \A i \in 1..Len(t) : Ch(t, i) \in {"0", "1", "2", "3", "4", "5", "6", "7", "8", "9"}

\* name is a bare auto-generated label: Picture N, Image N or Graphic N
BareGeneric(name) ==
    \E w \in {"Picture ", "Image ", "Graphic "} :
        /\ StartsWith(name, w)
        /\ Len(name) > Len(w)
        /\ AllDigits(SubSeq(name, Len(w) + 1, Len(name)))

\* picture s has no usable description, descr, title or non-generic name
NoRealAltText(s) ==
    /\ Blank(s.description) /\ Blank(s.alt_text)
    /\ Blank(s.descr) /\ Blank(s.title)
    /\ (Blank(s.name) \/ BareGeneric(Strip(s.name)))

\* C5: every entry of the images list is a non-empty string, and the entry
\* of a picture without usable description, descr, title and non-generic
\* name starts with "[No alt-text] ".
C5_NeverEmpty ==
    InSlide =>
        \A m \in 1..Len(slide_content.images) :
            /\ slide_content.images[m] # ""
            /\ NoRealAltText(SrcShape(images_src[m]))
                   => StartsWith(slide_content.images[m], "[No alt-text] ")

C5_Witness ==
    /\ InSlide
    /\ \E m \in 1..Len(slide_content.images) :
           /\ NoRealAltText(SrcShape(images_src[m]))
           /\ SrcShape(images_src[m]).description = " "
           /\ slide_content.images[m] = "[No alt-text] Picture 3"

\* extract_slide_text has returned the record of the slide of scenario A
ScenarioA ==
    /\ pc = "format"
    /\ Len(CurrentSlide.shapes) = 2
    /\ CurrentSlide.shapes[1] = TitleShape
    /\ CurrentSlide.shapes[2].kind = "text"
    /\ CurrentSlide.shapes[2].fault = "none"
    /\ CurrentSlide.shapes[2].hasTextFrame
    /\ CurrentSlide.shapes[2].paragraphs
           = <<Para("Align decisions", 0, BuChar("@")),
               Para("Coordinate shared roadmap", 0, NoAttrs)>>

\* C6 as stated: scenario A gives the title "Quarterly Review" and the
\* content lines "@ Align decisions" and "Coordinate shared roadmap", the
\* second one without glyph.
C6_Original ==
    ScenarioA =>
        /\ slide_content.title = "Quarterly Review"
        /\ slide_content.content = <<"@ Align decisions", "Coordinate shared roadmap">>

\* C6 as amended: scenario A gives the title "Quarterly Review" and the
\* content lines "@ Align decisions" and "@ Coordinate shared roadmap", the
\* second one with the glyph of the level-0 rules.
C6_ScenarioABothBulleted ==
    ScenarioA =>
        /\ slide_content.title = "Quarterly Review"
        /\ slide_content.content
               = <<"@ Align decisions", "@ Coordinate shared roadmap">>

C6_Witness ==
    /\ ScenarioA
    /\ ~CurrentSlide.shapes[2].parasStable
    /\ Len(slide_content.content) = 2
    /\ slide_content.content[2] = "@ Coordinate shared roadmap"

\* shape s exposes only a text, no text_frame, and the text is not blank
FlatWithText(s) ==
    /\ s.kind = "text"
    /\ s.fault = "none"
    /\ ~TitleFlagged(s)
    /\ ~s.hasTextFrame
    /\ ~Blank(s.text)

\* the positions in the content of the lines that come from shape k
LinesOf(k) == { n \in 1..Len(content_src) : content_src[n].shape = k }

\* C7 as stated: a shape with only a text gives one output line per
\* non-empty source line, in source order, a line that starts with a bullet
\* character kept as it is; the text "  - Item one\nItem two" gives
\* "- Item one" and then "- Item two" or "Item two".
C7_FlatModeLines ==
    ShapesDone =>
        \A k \in 1..Len(CurrentSlide.shapes) :
            FlatWithText(SrcShape(k)) =>
                LET lines == SplitLines(SrcShape(k).text)
                    nonEmpty == { i \in 1..Len(lines) : Strip(lines[i]) # "" }
                IN  /\ Cardinality(LinesOf(k)) = Cardinality(nonEmpty)
                    /\ \A i \in nonEmpty :
                           \E n \in LinesOf(k) :
                               /\ content_src[n].d.src = i
                               /\ EmbeddedBullet([text |-> lines[i]]) # None
                                      => slide_content.content[n] = Strip(lines[i])
                    /\ \A n1, n2 \in LinesOf(k) :
                           n1 < n2 => content_src[n1].d.src < content_src[n2].d.src
                    /\ SrcShape(k).text = "  - Item one\nItem two" =>
                           \E n \in LinesOf(k) :
                               /\ n + 1 \in LinesOf(k)
                               /\ slide_content.content[n] = "- Item one"
                               /\ slide_content.content[n + 1]
                                      \in {"- Item two", "Item two"}

\* C8: what a run of the extraction returns and prints for a slide is what
\* the first run returned and printed for it, and a run ends as the first
\* run ended.
C8_Deterministic ==
    \A r \in 2..Len(history) :
        /\ Len(history[r].records) <= Len(history[1].records)
        /\ \A k \in 1..Len(history[r].records) :
               /\ history[r].records[k] = history[1].records[k]
               /\ history[r].outputs[k] = history[1].outputs[k]
        /\ history[r].result # "running" =>
               /\ history[r].result = history[1].result
               /\ history[r].final_output = history[1].final_output
               /\ Len(history[r].records) = Len(history[1].records)

C8_Witness ==
    /\ Len(history) = 2
    /\ history[2].result = "True"
    /\ Len(history[2].records) = 2
    /\ history[2].records[1].content # <<>>
    /\ history[2].records[2].notes = "Speaker notes"
    /\ history[2].final_output = history[1].final_output

\* the first of the values that is not blank, None when all are
RECURSIVE FirstNonBlank(_)
FirstNonBlank(values) ==
    IF Len(values) = 0 THEN None
    ELSE IF ~Blank(values[1]) THEN values[1]
    ELSE FirstNonBlank(Tail(values))

\* the value the fallback chain selects for picture s, None when the
\* description, the descr and the title are blank and the name is blank or
\* a bare generic label
ChainValue(s) ==
    FirstNonBlank(<<s.description, s.alt_text, s.descr, s.title,
                    IF ~Blank(s.name) /\ ~BareGeneric(Strip(s.name))
                    THEN s.name ELSE None>>)

\* C9 as stated: every picture that is not the title and raises no error
\* gives exactly one image entry, the first non-blank value of description,
\* descr, title and non-generic name; the "[No alt-text] " entry is given
\* only when all of them are blank or generic.
C9_FallbackChain ==
    ShapesDone =>
        \A k \in 1..Len(CurrentSlide.shapes) :
            (/\ SrcShape(k).kind = "picture"
             /\ ~TitleFlagged(SrcShape(k))
             /\ ~Failed(k)) =>
                /\ Cardinality({ m \in 1..Len(images_src) : images_src[m] = k }) = 1
                /\ \A m \in 1..Len(images_src) :
                       images_src[m] = k =>
                           IF ChainValue(SrcShape(k)) = None
                           THEN StartsWith(slide_content.images[m], "[No alt-text] ")
                           ELSE slide_content.images[m]
                                    = Strip(ChainValue(SrcShape(k)))

\* v is absent or the empty string
Empty(v) == v \in {NoAttr, None, ""}

\* C10 as stated: when description, descr and title are all empty, the name
\* of the picture is its image entry if and only if the name is not a bare
\* label "Picture N", "Image N" or "Graphic N".
C10_NameUnlessBareLabel ==
    InSlide =>
        \A m \in 1..Len(images_src) :
            (/\ Empty(SrcShape(images_src[m]).description)
             /\ Empty(SrcShape(images_src[m]).alt_text)
             /\ Empty(SrcShape(images_src[m]).descr)
             /\ Empty(SrcShape(images_src[m]).title)
             /\ ~Blank(SrcShape(images_src[m]).name)) =>
                (slide_content.images[m] = Strip(SrcShape(images_src[m]).name)
                    <=> ~BareGeneric(Strip(SrcShape(images_src[m]).name)))

\* C11 as stated: the entry of a picture for which no real alt text is found
\* is "[No alt-text] " and the name of the shape when the shape has a
\* non-empty name, and else "[No alt-text] Image_<k>", k being one more than
\* the number of entries recorded before it for the slide.
C11_NameOrOrdinal ==
    InSlide =>
        \A m \in 1..Len(slide_content.images) :
            NoRealAltText(SrcShape(images_src[m])) =>
                slide_content.images[m] =
                    "[No alt-text] "
                        \o (IF ~Empty(SrcShape(images_src[m]).name)
                            THEN SrcShape(images_src[m]).name
                            ELSE "Image_" \o IntStr(m))

\* the first loop of extract_slide_text is through with the shapes
TitleDone == pc \in {"shapes", "notes", "format"}

\* shape k is flagged as the title placeholder and has a text that is read
\* without error and is not blank
TitleCandidate(k) ==
    /\ TitleFlagged(SrcShape(k))
    /\ SrcShape(k).fault # "placeholder_format"
    /\ ~ShapeTextRaises(SrcShape(k))
    /\ ~Blank(ShapeText(SrcShape(k)))

\* C12 as stated: the title of the record is the trimmed text of the first
\* shape, in slide order, that is flagged as the title placeholder and has a
\* non-empty trimmed text, later such shapes never replace it, and the title
\* is the empty string when the slide has no such shape.
C12_FirstTitleWins ==
    TitleDone =>
        LET candidates == { k \in 1..Len(CurrentSlide.shapes) : TitleCandidate(k) }
        IN  IF candidates = {}
            THEN slide_content.title = ""
            ELSE LET first == CHOOSE k \in candidates : \A o \in candidates : k <= o
                 IN  slide_content.title = Strip(ShapeText(SrcShape(first)))

\* C13 as stated: no error raised while a slide is assembled (by its shapes,
\* by the attributes of a paragraph, by its title or by its notes) ends the
\* run: extract_powerpoint_text never returns False, and when it returns it
\* has emitted the formatted output of every slide of the presentation.
C13_NoErrorIsFatal ==
    /\ pc # "failed"
    /\ \A r \in 1..Len(history) :
           /\ history[r].result # "False"
           /\ history[r].result = "True" =>
                  /\ Len(history[r].outputs) = Len(prs)
                  /\ history[r].final_output = JoinLines(history[r].outputs)

\* the lines of an output text
OutputLines(text) == SplitLines(text)

\* the position of the first line of ls that is h, 0 when there is none
Position(ls, h) ==
    IF \E i \in 1..Len(ls) : ls[i] = h
    THEN CHOOSE i \in 1..Len(ls) : ls[i] = h /\ \A j \in 1..(i - 1) : ls[j] # h
    ELSE 0

\* record rec of slide n was formatted as text out
WellFormatted(n, rec, out) ==
    LET ls == OutputLines(out)
        t == Position(ls, "Title:")
        c == Position(ls, "Content:")
        i == Position(ls, "Images:")
        o == Position(ls, "Notes:")
        present == { x \in {t, c, i, o} : x > 0 }
    IN  /\ ls[1] = "=== SLIDE " \o IntStr(n) \o " ==="
        /\ t > 0 <=> rec.title # ""
        /\ c > 0 <=> rec.content # <<>>
        /\ i > 0 <=> rec.images # <<>>
        /\ o > 0 <=> rec.notes # ""
        /\ t > 0 => t = 2 /\ ls[t + 1] = rec.title
        /\ c > 0 => /\ t < c
                    /\ \A k \in 1..Len(rec.content) : ls[c + k] = rec.content[k]
        /\ i > 0 => /\ t < i /\ c < i
                    /\ \A k \in 1..Len(rec.images) :
                           ls[i + k] = "Image " \o IntStr(k) \o ": " \o rec.images[k]
        /\ o > 0 => /\ t < o /\ c < o /\ i < o
                    /\ ls[o + 1] = rec.notes
        /\ Len(ls) = 1 + (IF t > 0 THEN 3 ELSE 0)
                       + (IF c > 0 THEN Len(rec.content) + 2 ELSE 0)
                       + (IF i > 0 THEN Len(rec.images) + 2 ELSE 0)
                       + (IF o > 0 THEN 3 ELSE 0)

\* C14: the output of a slide is the line "=== SLIDE n ===" and then the
\* sections Title, Content, Images, Notes in that order, a section whose
\* field is empty left out with its header line, the image entries numbered
\* from 1 in list order.
C14_SectionsInOrder ==
    \A r \in 1..Len(history) :
        \A n \in 1..Len(history[r].outputs) :
            WellFormatted(n, history[r].records[n], history[r].outputs[n])

C14_Witness ==
    /\ Len(history[1].outputs) = 1
    /\ history[1].records[1].title = "Quarterly Review"
    /\ Len(history[1].records[1].content) = 2
    /\ Len(history[1].records[1].images) = 2
    /\ history[1].records[1].notes = "Speaker notes"
    /\ OutputLines(history[1].outputs[1])
           = <<"=== SLIDE 1 ===", "Title:", "Quarterly Review", "",
               "Content:", "@ Align decisions", "@ Coordinate shared roadmap", "",
               "Images:", "Image 1: Team photo", "Image 2: [No alt-text] Picture 3", "",
               "Notes:", "Speaker notes", "">>

\* C15 as stated: in structured mode a paragraph that has the explicit
\* no-bullet attribute (a:buNone) and no embedded bullet character in its
\* text is rendered without glyph at every level, also at levels above 0.
C15_BuNoneNoGlyph ==
    InSlide =>
        \A n \in 1..Len(content_src) :
            (/\ SrcPara(n).hasPPr
             /\ SrcPara(n).buNone
             /\ EmbeddedBullet(SrcPara(n)) = None)
                => RenderedWith(n, "")

\* paragraph p has has-bullet formatting that supplies no character, and no
\* bullet character in its text
BulletWithoutChar(p) ==
    /\ p.fault = "none"
    /\ EmbeddedBullet(p) = None
    /\ p.buChar \in {None, NoAttr}
    /\ \/ p.hasPPr /\ (p.buChar = NoAttr \/ p.buAutoNum \/ p.buBlip \/ p.buFont)
       \/ p.runBu

\* paragraph p has nothing but its indentation: a level above 0, no bullet
\* attribute and no bullet character in its text
IndentationAlone(p) ==
    /\ NoExplicitAttr(p)
    /\ EmbeddedBullet(p) = None
    /\ p.level > 0

\* C16: in structured mode a paragraph whose glyph is assigned by level, by
\* has-bullet formatting without a literal character or by indentation
\* alone, has the glyph "@ ", "# ", "+ " at level 0, 1, 2, and two such
\* paragraphs of the same level, one of either kind, have the same glyph.
C16_LevelTable ==
    InSlide =>
        /\ \A n \in 1..Len(content_src) :
               (/\ BulletWithoutChar(SrcPara(n)) \/ IndentationAlone(SrcPara(n))
                /\ SrcPara(n).level <= 2)
                   => RenderedWith(n, IF SrcPara(n).level = 0 THEN "@ "
                                      ELSE IF SrcPara(n).level = 1 THEN "# "
                                      ELSE "+ ")
        /\ \A n1, n2 \in 1..Len(content_src) :
               (/\ BulletWithoutChar(SrcPara(n1))
                /\ IndentationAlone(SrcPara(n2))
                /\ SrcPara(n1).level = SrcPara(n2).level)
                   => RenderedGlyph(n1) = RenderedGlyph(n2)

C16_Witness ==
    /\ InSlide
    /\ Len(content_src) = 2
    /\ BulletWithoutChar(SrcPara(1))
    /\ IndentationAlone(SrcPara(2))
    /\ SrcPara(1).level = 2
    /\ slide_content.content
           = <<"    + Review the plan now", "    + Review the plan now">>

\* paragraph p gets its glyph by its level, and the level is beyond the table
DeepLevelGlyph(p) ==
    /\ BulletWithoutChar(p) \/ IndentationAlone(p)
    /\ p.level >= 3

\* the source line of entry n of text_content, for a shape with only a text
FlatSourceLine(n) == SplitLines(SrcShape(text_shape).text)[text_content[n].src]

\* entry n of text_content is a line of flat mode that was given a glyph, at
\* an estimated level beyond the table
DeepFlatBullet(n) ==
    /\ ~SrcShape(text_shape).hasTextFrame
    /\ EntryLevel(n) >= 3
    /\ text_content[n].line # Strip(FlatSourceLine(n))

\* C17 as stated: a paragraph at level 3 or deeper that gets a level-based
\* glyph has the last entry of the table, "+ ", and flat mode gives the
\* same glyph at such a level.
C17_Original ==
    InSlide =>
        /\ \A n \in 1..Len(content_src) :
               DeepLevelGlyph(SrcPara(n)) => RenderedWith(n, "+ ")
        /\ text_shape > 0 =>
               \A n \in 1..Len(text_content) :
                   DeepFlatBullet(n) =>
                       text_content[n].line
                           = Repeat(" ", 2 * EntryLevel(n)) \o "+ "
                                 \o Strip(FlatSourceLine(n))

\* C17 as amended: in structured mode a paragraph at level 3 or deeper that
\* gets a level-based glyph has the generic glyph "- ", not the last entry
\* of the table; flat mode does not agree: a line it gives a glyph at an
\* estimated level of 3 or deeper is built with the last entry, "+ ".
C17_DashBeyondTable ==
    InSlide =>
        /\ \A n \in 1..Len(content_src) :
               DeepLevelGlyph(SrcPara(n)) => RenderedWith(n, "- ")
        /\ text_shape > 0 =>
               \A n \in 1..Len(text_content) :
                   DeepFlatBullet(n) =>
                       text_content[n].line
                           = Repeat(" ", 2 * EntryLevel(n)) \o "+ "
                                 \o Strip(FlatSourceLine(n))

C17_Witness ==
    /\ pc = "format"
    /\ slide_content.content
           = <<"      - Review the plan now", "      - Review the plan now">>
    /\ DeepLevelGlyph(SrcPara(1))
    /\ text_shape = 2
    /\ DeepFlatBullet(2)
    /\ text_content[2].line = "      + sub item"

\* line n of the content is from a level-0 paragraph with no explicit bullet
\* attribute and no bullet character in its text
PlainLevel0(n) ==
    /\ NoExplicitAttr(SrcPara(n))
    /\ EmbeddedBullet(SrcPara(n)) = None
    /\ SrcPara(n).level = 0

\* the line before line n that is from the same shape, 0 when line n is the
\* first non-empty line of its shape
PrevLine(n) ==
    IF n > 1 /\ content_src[n - 1].shape = content_src[n].shape THEN n - 1 ELSE 0

\* line m of the content begins with a bullet glyph
CarriesGlyph(m) == EmbeddedBullet([text |-> slide_content.content[m]]) # None

\* the continuation rule: the text of line n has more than 2 words and no
\* trailing colon, and the line before it in the shape is short (at most 3
\* words) without trailing colon or carries a bullet glyph
Continuation(n) ==
    LET text == Strip(SrcPara(n).text)
        m == PrevLine(n)
    IN  /\ SplitLen(text) > 2
        /\ ~EndsWith(text, ":")
        /\ m > 0
        /\ \/ /\ SplitLen(Strip(SrcPara(m).text)) <= 3
              /\ ~EndsWith(Strip(SrcPara(m).text), ":")
           \/ CarriesGlyph(m)

\* C18 as stated: a level-0 paragraph with no explicit bullet attribute and
\* no embedded bullet character has no glyph unless the continuation rule
\* holds: the first non-empty paragraph of a shape, a paragraph of at most 2
\* words and a paragraph after a line of more than 3 words without bullet
\* are rendered verbatim, whatever their words.
C18_VerbatimWithoutContinuation ==
    InSlide =>
        \A n \in 1..Len(content_src) :
            (PlainLevel0(n) /\ ~Continuation(n)) => RenderedWith(n, "")

\* C19 as stated: a level-0 paragraph with no explicit bullet attribute and
\* no embedded bullet character has a bullet glyph whenever the continuation
\* rule holds, whatever its words.
C19_GlyphOnContinuation ==
    InSlide =>
        \A n \in 1..Len(content_src) :
            (PlainLevel0(n) /\ Continuation(n))
                => \E g \in {"@ ", "# ", "+ ", "- ", "* "} : RenderedWith(n, g)

\* the second loop of extract_slide_text is through with shape k
Processed(k) == ShapesDone \/ (pc = "shapes" /\ k < shape_idx)

\* shape k has a paragraph list, and extract_text_from_shape was called for
\* it and has returned
Returned(k) ==
    /\ Processed(k)
    /\ SrcShape(k).kind = "text"
    /\ SrcShape(k).hasTextFrame
    /\ ~TitleFlagged(SrcShape(k))
    /\ ~Failed(k)

\* the indices from j on of the paragraphs of s whose trimmed text is not
\* empty, in paragraph order
RECURSIVE NonEmptyFrom(_, _)
NonEmptyFrom(s, j) ==
    IF j > Len(s.paragraphs) THEN <<>>
    ELSE (IF Strip(s.paragraphs[j].text) # "" THEN <<j>> ELSE <<>>)
             \o NonEmptyFrom(s, j + 1)

\* for the shapes from k on that have returned, the pairs of shape and
\* paragraph index of their non-empty paragraphs, in shape and paragraph order
RECURSIVE ExpectedFrom(_)
ExpectedFrom(k) ==
    IF k > Len(CurrentSlide.shapes) THEN <<>>
    ELSE (IF Returned(k)
          THEN LET idx == NonEmptyFrom(SrcShape(k), 1)
               IN  [i \in 1..Len(idx) |-> <<k, idx[i]>>]
          ELSE <<>>) \o ExpectedFrom(k + 1)

\* the trimmed text of paragraph p without its embedded bullet character
Body(p) ==
    IF EmbeddedBullet(p) = None THEN Strip(p.text)
    ELSE Strip(SubSeq(Strip(p.text), 2, Len(Strip(p.text))))

\* C20: for a shape with a paragraph list extract_text_from_shape returns
\* one line per paragraph whose trimmed text is not empty, none for a
\* whitespace-only paragraph, in paragraph order, and the content of the
\* slide is the concatenation of the lists returned for its shapes, in shape
\* order, with nothing reordered, left out or merged.
C20_OneLinePerParagraphInOrder ==
    (pc \in {"shapes", "notes", "format"}) =>
        /\ (text_shape > 0 /\ Returned(text_shape)) =>
               [n \in 1..Len(text_content) |-> text_content[n].src]
                   = NonEmptyFrom(SrcShape(text_shape), 1)
        /\ Len(slide_content.content) = Len(ExpectedFrom(1))
        /\ \A n \in 1..Len(slide_content.content) :
               /\ content_src[n].shape = ExpectedFrom(1)[n][1]
               /\ content_src[n].d.src = ExpectedFrom(1)[n][2]
               /\ EndsWith(slide_content.content[n], Body(SrcPara(n)))

C20_Witness ==
    /\ pc = "format"
    /\ Len(CurrentSlide.shapes) = 2
    /\ Returned(1) /\ Returned(2)
    /\ Len(SrcShape(1).paragraphs) = 2
    /\ Strip(SrcShape(1).paragraphs[1].text) = ""
    /\ slide_content.content = <<"Agenda", "Agenda">>

\* shape k was routed to exactly one output: a picture to one image entry,
\* any other shape to the content, with one line per non-empty paragraph
Routed(k) ==
    IF SrcShape(k).kind = "picture"
    THEN /\ Cardinality({ m \in 1..Len(images_src) : images_src[m] = k }) = 1
         /\ LinesOf(k) = {}
    ELSE /\ \A m \in 1..Len(images_src) : images_src[m] # k
         /\ SrcShape(k).hasTextFrame =>
                Cardinality(LinesOf(k)) = Len(NonEmptyFrom(SrcShape(k), 1))

\* the shapes whose text can be the one recorded as the title; 0 stands for
\* no shape, when the slide has no title
TitleSources ==
    LET sources == { k \in 1..Len(CurrentSlide.shapes) :
                         /\ TitleCandidate(k)
                         /\ Strip(ShapeText(SrcShape(k))) = slide_content.title }
    IN  IF sources = {} THEN {0} ELSE sources

\* C21 as stated: only the one shape whose text was recorded as the title is
\* excluded; every other shape that raises no error, a further title-flagged
\* shape included, is routed in slide order to exactly one of the two
\* outputs, so that no text is dropped.
C21_OnlyTitleExcluded ==
    ShapesDone =>
        /\ \E t \in TitleSources :
               \A k \in 1..Len(CurrentSlide.shapes) :
                   (k # t /\ ~Failed(k)) => Routed(k)
        /\ \A n \in 2..Len(content_src) :
               content_src[n - 1].shape <= content_src[n].shape
        /\ \A m \in 2..Len(images_src) : images_src[m - 1] < images_src[m]

\* shape s with the bullet attributes of its paragraph j removed
WithoutAttrs(s, j) ==
    [s EXCEPT !.paragraphs[j] =
        Para(s.paragraphs[j].text, s.paragraphs[j].level, NoAttrs)]

\* reading the explicit bullet attributes of paragraph p raises
AttrFault(p) == p.fault \in {"pPr", "buChar", "runs"}

\* C22 as stated: when reading the explicit bullet attributes of a paragraph
\* raises, at any point, the error is not propagated and the paragraph gives
\* the line it gives without any explicit signal, by the lower-priority
\* rules alone: nothing read before the error is kept.
C22_AttrErrorNoSignal ==
    ShapesDone =>
        \A k \in 1..Len(CurrentSlide.shapes) :
            (/\ SrcShape(k).kind = "text"
             /\ SrcShape(k).fault = "none"
             /\ SrcShape(k).hasTextFrame
             /\ ~TitleFlagged(SrcShape(k))
             /\ ~ShapeTextRaises(SrcShape(k))) =>
                \A j \in 1..Len(SrcShape(k).paragraphs) :
                    (/\ AttrFault(SrcShape(k).paragraphs[j])
                     /\ Strip(SrcShape(k).paragraphs[j].text) # "") =>
                        /\ ~Failed(k)
                        /\ \E n \in LinesOf(k) :
                               /\ content_src[n].d.src = j
                               /\ slide_content.content[n]
                                      = ResolveParagraph(WithoutAttrs(SrcShape(k), j), j).line

\* C23 as stated: for every shape extract_text_from_shape enters at most
\* one of its two resolution paths, the one selected by whether the shape
\* has a paragraph list: a shape with a paragraph list is resolved by the
\* structured path alone, and for a shape without one the paragraph list is
\* never accessed.
C23_OnePathPerShape ==
    (InSlide /\ text_shape > 0) =>
        /\ Cardinality(entered) <= 1
        /\ SrcShape(text_shape).hasTextFrame => entered = {"structured"}
        /\ ~SrcShape(text_shape).hasTextFrame => "structured" \notin entered

\* processing shape k in the second loop raises an error that reaches the
\* handler of lines 388-391: reading shape_type raises, reading the text of
\* a paragraph raises, or the shape has only a text
Raises(k) ==
    /\ ~(TitleFlagged(SrcShape(k)) /\ SrcShape(k).fault # "placeholder_format")
    /\ \/ SrcShape(k).fault = "shape_type"
       \/ /\ SrcShape(k).kind = "text"
          /\ \/ ShapeTextRaises(SrcShape(k))
             \/ ~SrcShape(k).hasTextFrame /\ ~Blank(SrcShape(k).text)

\* the second loop is at a shape whose processing raises
AtRaisingShape ==
    /\ pc = "shapes"
    /\ shape_idx <= Len(CurrentSlide.shapes)
    /\ Raises(shape_idx)

\* C24: when the processing of a shape raises, the step that skips it leaves
\* the title, the content and the images as the earlier shapes made them,
\* prints one warning for the shape and goes to the next shape; the shape
\* never has a content line or an image entry, not even the lines built
\* before the error, and never a second warning.
C24_SkipAllOrNothing ==
    /\ []((InSlide /\ pc # "failed") =>
              \A k \in 1..Len(CurrentSlide.shapes) :
                  Raises(k) =>
                      /\ LinesOf(k) = {}
                      /\ \A m \in 1..Len(images_src) : images_src[m] # k
                      /\ Cardinality({ w \in 1..Len(warnings) : warnings[w] = k })
                             = (IF Processed(k) THEN 1 ELSE 0))
    /\ [][AtRaisingShape =>
              /\ slide_content' = slide_content
              /\ warnings' = Append(warnings, shape_idx)
              /\ shape_idx' = shape_idx + 1]_vars

C24_Witness ==
    /\ pc = "format"
    /\ Len(CurrentSlide.shapes) = 2
    /\ ~Raises(1)
    /\ Raises(2)
    /\ ShapeTextRaises(SrcShape(2))
    /\ text_shape = 2
    /\ Len(text_content) = 1
    /\ warnings = <<2>>
    /\ slide_content.content = <<"@ Align decisions", "@ Coordinate shared roadmap">>

====
